---------------------------- MODULE Spec2Model ----------------------------
(***************************************************************************)
(* A model of rii2nexus: the chemical formula normaliser (rii2nexus.py,    *)
(* parse_mat_desc / element_regex / hill_sorted_elements / fill), the      *)
(* dispersion-axis record linker (create_nexus / create_nexus_database)    *)
(* and the citation parser (parsing_references.py, class Citation).        *)
(*                                                                         *)
(* Text is modelled as a sequence of one-character strings, and every      *)
(* regular expression of the source is computed character by character.    *)
(***************************************************************************)
EXTENDS Integers, Sequences, FiniteSets, TLC

(***************************************************************************)
(* Characters and generic text helpers                                     *)
(***************************************************************************)
Digits == <<"0","1","2","3","4","5","6","7","8","9">>

Uppers == <<"A","B","C","D","E","F","G","H","I","J","K","L","M",
            "N","O","P","Q","R","S","T","U","V","W","X","Y","Z">>

Lowers == <<"a","b","c","d","e","f","g","h","i","j","k","l","m",
            "n","o","p","q","r","s","t","u","v","w","x","y","z">>

\* The characters of [A-Za-z0-9] in code point order.
Ascii == Digits \o Uppers \o Lowers

Range(s) == {s[i] : i \in DOMAIN s}

IsDigit(c) == c \in Range(Digits)

IsAlnum(c) == c \in Range(Ascii)

\* \s of the regular expressions, on the characters the model uses.
IsSpace(c) == c \in {" ", "\n"}

\* The code point order of two alphanumeric characters.
Ord(c) == CHOOSE i \in DOMAIN Ascii : Ascii[i] = c

\* Python's str < str on alphanumeric text: code point by code point, a proper
\* prefix first.
RECURSIVE StrLess(_, _)
StrLess(a, b) ==
    IF b = <<>> THEN FALSE
    ELSE IF a = <<>> THEN TRUE
    ELSE IF a[1] # b[1] THEN Ord(a[1]) < Ord(b[1])
    ELSE StrLess(Tail(a), Tail(b))

\* s[i..] starts with pat.
StartsAt(s, pat, i) ==
    /\ i >= 1
    /\ i + Len(pat) - 1 <= Len(s)
    /\ \A k \in 1..Len(pat) : s[i + k - 1] = pat[k]

\* "pat in s"
Contains(s, pat) == \E i \in 1..Len(s) : StartsAt(s, pat, i)

\* The least and the greatest index of a set of indices, 0 for the empty set.
First(S) == IF S = {} THEN 0 ELSE CHOOSE i \in S : \A j \in S : i <= j

Last(S) == IF S = {} THEN 0 ELSE CHOOSE i \in S : \A j \in S : j <= i

\* str.find: the first index >= from where pat starts, 0 when there is none.
Find(s, pat, from) == First({i \in from..Len(s) : StartsAt(s, pat, i)})

\* str.rfind: the last index where pat starts, 0 when there is none.
RFind(s, pat) == Last({i \in 1..Len(s) : StartsAt(s, pat, i)})

\* str.replace(old, new): every non-overlapping occurrence, left to right.
RECURSIVE ReplaceFrom(_, _, _, _)
ReplaceAt(s, old, new, from, i) ==
    IF i = 0 THEN SubSeq(s, from, Len(s))
    ELSE SubSeq(s, from, i - 1) \o new \o ReplaceFrom(s, old, new, i + Len(old))

ReplaceFrom(s, old, new, from) == ReplaceAt(s, old, new, from, Find(s, old, from))

Replace(s, old, new) == ReplaceFrom(s, old, new, 1)

\* sep.join(parts)
RECURSIVE Join(_, _)
Join(sep, parts) ==
    IF parts = <<>> THEN <<>>
    ELSE IF Len(parts) = 1 THEN parts[1]
    ELSE parts[1] \o sep \o Join(sep, Tail(parts))

\* int(digits) for a non-empty run of decimal digits.
RECURSIVE ToInt(_)
ToInt(ds) ==
    IF ds = <<>> THEN 0
    ELSE 10 * ToInt(SubSeq(ds, 1, Len(ds) - 1)) + (Ord(ds[Len(ds)]) - 1)

\* str(n) for a natural number: its decimal digits, no leading zero.
RECURSIVE ToStr(_)
ToStr(n) ==
    IF n < 10 THEN <<Digits[n + 1]>>
    ELSE ToStr(n \div 10) \o <<Digits[(n % 10) + 1]>>

\* str.strip(chars)
RECURSIVE LStrip(_, _)
LStrip(s, chars) ==
    IF s # <<>> /\ s[1] \in chars THEN LStrip(Tail(s), chars) ELSE s

RECURSIVE RStrip(_, _)
RStrip(s, chars) ==
    IF s # <<>> /\ s[Len(s)] \in chars
    THEN RStrip(SubSeq(s, 1, Len(s) - 1), chars)
    ELSE s

Strip(s, chars) == RStrip(LStrip(s, chars), chars)

(***************************************************************************)
(* FormulaNormalizer: parse_mat_desc, element_regex, hill_sorted_elements, *)
(* fill                                                                    *)
(***************************************************************************)

\* re.sub(r"\<[^\>]*\>", "", s): every "<" up to the next ">" is removed; a "<"
\* with no ">" after it stays.
\* StripMarkupAt: i is the start of the first match at or after from, 0 when
\* there is none.
RECURSIVE StripMarkupFrom(_, _)
StripMarkupAt(s, from, i) ==
    IF i = 0 THEN SubSeq(s, from, Len(s))
    ELSE SubSeq(s, from, i - 1) \o StripMarkupFrom(s, Find(s, <<">">>, i + 1) + 1)

StripMarkupFrom(s, from) ==
    StripMarkupAt(s, from,
                  First({i \in from..Len(s) : s[i] = "<" /\ Find(s, <<">">>, i + 1) # 0}))

StripMarkup(s) == StripMarkupFrom(s, 1)

\* re.match(r"\(([^\)]+)\)n", s): the index of the ")" closing the leading
\* group, 0 when the description is no polymer.
PolymerCloseAt(s, j) ==
    IF /\ Len(s) >= 1
       /\ s[1] = "("
       /\ j >= 3
       /\ j + 1 <= Len(s)
       /\ s[j + 1] = "n"
    THEN j ELSE 0

PolymerClose(s) == PolymerCloseAt(s, Find(s, <<")">>, 2))

\* re.match(r"^(.*)\(([^\(\)]+)\)$", s): the index of the "(" opening the
\* trailing parenthetical, 0 when there is none.  The group may hold no
\* parenthesis, so it opens at the last "(" of the text.
TrailingOpenAt(s, k) ==
    IF /\ Len(s) >= 3
       /\ s[Len(s)] = ")"
       /\ k # 0
       /\ k + 1 <= Len(s) - 1
       /\ \A i \in (k + 1)..(Len(s) - 1) : s[i] # ")"
    THEN k ELSE 0

TrailingOpen(s) == TrailingOpenAt(s, RFind(s, <<"(">>))

\* clean_formula: re.sub(r"[^A-Za-z0-9]", "", formula)
clean_formula(formula) == SelectSeq(formula, IsAlnum)

\* get_colloq_names
get_colloq_names(polymer, formula, colloquial_names) ==
    (IF polymer THEN << <<"(">> \o formula \o <<")", "n">> >> ELSE <<>>)
    \o (IF colloquial_names # <<>> THEN <<colloquial_names>> ELSE <<>>)

\* The return value of parse_mat_desc.
Parsed(polymer, formula, colloquial_names) ==
    [formula |-> clean_formula(formula),
     names |-> get_colloq_names(polymer, formula, colloquial_names)]

\* parse_mat_desc after the markup is gone: s is the text, p the polymer's
\* ")" (0: no polymer), k the trailing parenthetical's "(" (0: none) and r the
\* last ")n" of the text, where rsplit(")n", 1) cuts.
ParseStripped(s, p, k, r) ==
    IF p # 0
    THEN Parsed(TRUE, SubSeq(s, 2, p - 1),
                Strip(SubSeq(s, r + 2, Len(s)), {"(", ")", " "}))
    ELSE IF k # 0
    THEN Parsed(FALSE, SubSeq(s, 1, k - 1), SubSeq(s, k + 1, Len(s) - 1))
    ELSE Parsed(FALSE, s, <<>>)

ParseText(s) ==
    ParseStripped(s, PolymerClose(s), TrailingOpen(s), RFind(s, <<")", "n">>))

\* parse_mat_desc: the clean formula and the colloquial names.
parse_mat_desc(material_description) == ParseText(StripMarkup(material_description))

\* ase.data.chemical_symbols without the placeholder "X".
chemical_symbols == {
    <<"H">>, <<"H","e">>, <<"L","i">>, <<"B","e">>, <<"B">>, <<"C">>, <<"N">>, <<"O">>,
    <<"F">>, <<"N","e">>, <<"N","a">>, <<"M","g">>, <<"A","l">>, <<"S","i">>, <<"P">>,
    <<"S">>, <<"C","l">>, <<"A","r">>, <<"K">>, <<"C","a">>, <<"S","c">>, <<"T","i">>,
    <<"V">>, <<"C","r">>, <<"M","n">>, <<"F","e">>, <<"C","o">>, <<"N","i">>, <<"C","u">>,
    <<"Z","n">>, <<"G","a">>, <<"G","e">>, <<"A","s">>, <<"S","e">>, <<"B","r">>,
    <<"K","r">>, <<"R","b">>, <<"S","r">>, <<"Y">>, <<"Z","r">>, <<"N","b">>, <<"M","o">>,
    <<"T","c">>, <<"R","u">>, <<"R","h">>, <<"P","d">>, <<"A","g">>, <<"C","d">>,
    <<"I","n">>, <<"S","n">>, <<"S","b">>, <<"T","e">>, <<"I">>, <<"X","e">>, <<"C","s">>,
    <<"B","a">>, <<"L","a">>, <<"C","e">>, <<"P","r">>, <<"N","d">>, <<"P","m">>,
    <<"S","m">>, <<"E","u">>, <<"G","d">>, <<"T","b">>, <<"D","y">>, <<"H","o">>,
    <<"E","r">>, <<"T","m">>, <<"Y","b">>, <<"L","u">>, <<"H","f">>, <<"T","a">>, <<"W">>,
    <<"R","e">>, <<"O","s">>, <<"I","r">>, <<"P","t">>, <<"A","u">>, <<"H","g">>,
    <<"T","l">>, <<"P","b">>, <<"B","i">>, <<"P","o">>, <<"A","t">>, <<"R","n">>,
    <<"F","r">>, <<"R","a">>, <<"A","c">>, <<"T","h">>, <<"P","a">>, <<"U">>, <<"N","p">>,
    <<"P","u">>, <<"A","m">>, <<"C","m">>, <<"B","k">>, <<"C","f">>, <<"E","s">>,
    <<"F","m">>, <<"M","d">>, <<"N","o">>, <<"L","r">>, <<"R","f">>, <<"D","b">>,
    <<"S","g">>, <<"B","h">>, <<"H","s">>, <<"M","t">>, <<"D","s">>, <<"R","g">>,
    <<"C","n">>, <<"N","h">>, <<"F","l">>, <<"M","c">>, <<"L","v">>, <<"T","s">>,
    <<"O","g">> }

\* element_regex: the alternatives of the pattern.
element_names == chemical_symbols \cup { <<"D">>, <<"T">> }

\* The alternatives are tried in reverse sorted order, so of the names that
\* start at i the greatest one matches; <<>> when none starts there.
FirstAlternative(here) ==
    IF here = {} THEN <<>>
    ELSE CHOOSE e \in here : \A f \in here : f = e \/ StrLess(f, e)

ElementAt(s, i) == FirstAlternative({e \in element_names : StartsAt(s, e, i)})

\* (\d*): the longest run of digits from i.
RECURSIVE DigitRun(_, _)
DigitRun(s, i) ==
    IF i <= Len(s) /\ IsDigit(s[i]) THEN <<s[i]>> \o DigitRun(s, i + 1) ELSE <<>>

\* element_regex().findall(s): the (symbol, digits) matches, left to right.
\* MatchAt: i is the start of the first match at or after from, 0 when there
\* is none; e is the symbol and d the digits matched there.
RECURSIVE FindAllFrom(_, _)
MatchThenRest(s, i, e, d) ==
    << <<e, d>> >> \o FindAllFrom(s, i + Len(e) + Len(d))

MatchAt(s, i, e) == MatchThenRest(s, i, e, DigitRun(s, i + Len(e)))

FindAllAt(s, i) == IF i = 0 THEN <<>> ELSE MatchAt(s, i, ElementAt(s, i))

FindAllFrom(s, from) ==
    FindAllAt(s, First({i \in from..Len(s) : ElementAt(s, i) # <<>>}))

findall(s) == FindAllFrom(s, 1)

\* A dict as a function on its keys; d[k] = v.
Put(d, k, v) == [x \in (DOMAIN d) \cup {k} |-> IF x = k THEN v ELSE d[x]]

EmptyDict == [x \in {} |-> 0]

\* int(amount) if amount else 1
Amount(digits) == IF digits # <<>> THEN ToInt(digits) ELSE 1

\* The loop of hill_sorted_elements: elems_dict after the matches.
\* elems_dict.get(elem, 0)
Get(d, k, default) == IF k \in DOMAIN d THEN d[k] ELSE default

RECURSIVE Aggregate(_, _)
Aggregate(elements, elems_dict) ==
    IF elements = <<>> THEN elems_dict
    ELSE Aggregate(Tail(elements),
                   Put(elems_dict, elements[1][1],
                       Get(elems_dict, elements[1][1], 0) + Amount(elements[1][2])))

\* sorted(d.items()) for the keys in `keys`: (symbol, amount) by symbol.
Least(keys) == CHOOSE k \in keys : \A o \in keys : o = k \/ StrLess(k, o)

RECURSIVE SortedItems(_, _)
ItemThenRest(d, keys, least) ==
    << <<least, d[least]>> >> \o SortedItems(d, keys \ {least})

SortedItems(d, keys) == IF keys = {} THEN <<>> ELSE ItemThenRest(d, keys, Least(keys))

SymbolC == <<"C">>

SymbolH == <<"H">>

\* The second half of hill_sorted_elements: C, then H when its amount is
\* truthy, then the sorted rest.
HillOrder(elems_dict) ==
    IF SymbolC \in DOMAIN elems_dict
    THEN << <<SymbolC, elems_dict[SymbolC]>> >>
         \o (IF Get(elems_dict, SymbolH, 0) # 0
             THEN << <<SymbolH, elems_dict[SymbolH]>> >> ELSE <<>>)
         \o SortedItems(elems_dict, (DOMAIN elems_dict) \ {SymbolC, SymbolH})
    ELSE SortedItems(elems_dict, DOMAIN elems_dict)

\* hill_sorted_elements
hill_sorted_elements(elements) == HillOrder(Aggregate(elements, EmptyDict))

\* The canonical formula of fill: symbol, or symbol and amount when amount > 1.
RECURSIVE Render(_)
Render(elems) ==
    IF elems = <<>> THEN <<>>
    ELSE (IF elems[1][2] > 1 THEN elems[1][1] \o ToStr(elems[1][2]) ELSE elems[1][1])
         \o Render(Tail(elems))

Symbols(elems) == [i \in DOMAIN elems |-> elems[i][1]]

\* The local elems of fill: <<>> when the findall matched nothing.
ElemsOf(elements) == IF elements # <<>> THEN hill_sorted_elements(elements) ELSE <<>>

FillElems(material_description) ==
    ElemsOf(findall(parse_mat_desc(material_description).formula))

KeyFormula == "/ENTRY[entry]/sample/chemical_formula"

KeyColloquial == "/ENTRY[entry]/sample/colloquial_name"

KeyAtomTypes == "/ENTRY[entry]/sample/atom_types"

\* fill, its second half: the atom types and the canonical formula.
FillAtoms(md, hill) ==
    IF hill # <<>>
    THEN Put(Put(md, KeyAtomTypes, Join(<<",">>, Symbols(hill))), KeyFormula, Render(hill))
    ELSE md

\* fill, its first half: the clean formula and the colloquial names.
FillNames(md, colloquial_names) ==
    IF colloquial_names # <<>>
    THEN Put(md, KeyColloquial, Join(<<",", " ">>, colloquial_names))
    ELSE md

FillParsed(md, parsed) ==
    FillAtoms(FillNames(Put(md, KeyFormula, parsed.formula), parsed.names),
              ElemsOf(findall(parsed.formula)))

\* fill(metadata, entry): the metadata dict after the call.
fill(md, material_description) == FillParsed(md, parse_mat_desc(material_description))

(***************************************************************************)
(* AxisLinker: create_nexus and create_nexus_database                      *)
(***************************************************************************)

\* prefix_path
prefix_path(path) ==
    <<"r","e","f","r","a","c","t","i","v","e","i","n","d","e","x",".","i","n","f","o",
      "-","d","a","t","a","b","a","s","e","/","d","a","t","a","b","a","s","e","/">>
    \o path

\* f"-{axis}."
AxisToken(axis) == <<"-">> \o axis \o <<".">>

AxisO == <<"o">>

AxisE == <<"e">>

AxisAlpha == <<"a","l","p","h","a">>

AxisBeta == <<"b","e","t","a">>

AxisGamma == <<"g","a","m","m","a">>

KeyDispersionY == "dispersion_y"

KeyDispersionZ == "dispersion_z"

\* A skip list that lacks the gamma axis.
SkipOnMissingGamma == <<AxisE, AxisBeta>>

\* The argument of skip_entries in create_nexus.
SkipOn == <<AxisE, AxisBeta, AxisGamma>>

\* skip_entries
skip_entries(entry, skip_on) ==
    \E i \in DOMAIN skip_on : Contains(entry.path, AxisToken(skip_on[i]))

\* catalog[catalog["path"] == path]: the rows with that path.
SecEntry(cat, path) == {i \in DOMAIN cat : cat[i].path = path}

\* entry["path"].replace(f"-{base}.", f"-{secondary}.")
SecondaryPath(entry, base, secondary) ==
    Replace(entry.path, AxisToken(base), AxisToken(secondary))

\* get_secondary_entry with an assertion that accepts duplicated siblings.
get_secondary_entry_lax(entry, cat, base, secondary) ==
    [ok |-> Cardinality(SecEntry(cat, SecondaryPath(entry, base, secondary))) >= 1,
     path |-> SecondaryPath(entry, base, secondary)]

\* get_secondary_entry: the sibling's path, and whether the assertion
\* len(sec_entry) == 1 passed.
get_secondary_entry(entry, cat, base, secondary) ==
    [ok |-> Cardinality(SecEntry(cat, SecondaryPath(entry, base, secondary))) = 1,
     path |-> SecondaryPath(entry, base, secondary)]

Raised == [outcome |-> "raised", metadata |-> EmptyDict]

Written(md) == [outcome |-> "written", metadata |-> md]

\* fill_uniaxial_entry, entered when "-o." is in the path.
Uniaxial(entry, e) ==
    IF ~e.ok THEN Raised
    ELSE Written(fill(Put(EmptyDict, KeyDispersionZ, prefix_path(e.path)),
                      entry.material_description))

fill_uniaxial_entry(entry, cat) ==
    Uniaxial(entry, get_secondary_entry(entry, cat, AxisO, AxisE))

\* fill_biaxial_entry, entered when "-alpha." is in the path.
Biaxial(entry, beta, gamma) ==
    IF ~beta.ok THEN Raised
    ELSE IF ~gamma.ok THEN Raised
    ELSE Written(fill(Put(Put(EmptyDict, KeyDispersionY, prefix_path(beta.path)),
                          KeyDispersionZ, prefix_path(gamma.path)),
                      entry.material_description))

fill_biaxial_entry(entry, cat) ==
    Biaxial(entry, get_secondary_entry(entry, cat, AxisAlpha, AxisBeta),
            get_secondary_entry(entry, cat, AxisAlpha, AxisGamma))

\* fill_entry
fill_entry(entry) == Written(fill(EmptyDict, entry.material_description))

\* create_nexus(entry, catalog): what the call did for the entry.
create_nexus(entry, cat) ==
    IF skip_entries(entry, SkipOn)
    THEN [outcome |-> "skipped", metadata |-> EmptyDict]
    ELSE IF Contains(entry.path, AxisToken(AxisO))
    THEN fill_uniaxial_entry(entry, cat)
    ELSE IF Contains(entry.path, AxisToken(AxisAlpha))
    THEN fill_biaxial_entry(entry, cat)
    ELSE fill_entry(entry)

\* write_nexus: the call of the external converter.  The output file name it
\* also passes is derived from path alone and is left to the converter.
write_nexus(path, md) ==
    [input_file |-> prefix_path(path), objects |-> md]
(***************************************************************************)
(* CitationParser: class Citation of parsing_references.py                 *)
(***************************************************************************)

\* Python's None: a value that no text equals (a text holds single characters).
None == <<"None">>

\* bool(x) of an optional text.
Truthy(x) == x # None /\ x # <<>>

RECURSIVE SkipSpaces(_, _)
SkipSpaces(s, i) ==
    IF i <= Len(s) /\ IsSpace(s[i]) THEN SkipSpaces(s, i + 1) ELSE i

\* "\/?\s*" from j: the index after an optional "/" and white space.
AfterSlash(s, j) == IF j <= Len(s) /\ s[j] = "/" THEN SkipSpaces(s, j + 1) ELSE j

\* ">" at k: the index after it, 0 when s[k] is not ">".
ClosesAt(s, k) == IF k <= Len(s) /\ s[k] = ">" THEN k + 1 ELSE 0

\* r"<br\s*\/?\s*>" matched at i: the index after the match, 0 when it does
\* not match there.
BrEnd(s, i) ==
    IF StartsAt(s, <<"<", "b", "r">>, i)
    THEN ClosesAt(s, AfterSlash(s, SkipSpaces(s, i + 3)))
    ELSE 0

\* re.split(r"<br\s*\/?\s*>", reference): the text between the matches.
\* SplitAt: i is the start of the first match at or after start, 0 when there
\* is none.
RECURSIVE SplitFrom(_, _)
SplitAt(s, start, i) ==
    IF i = 0 THEN <<SubSeq(s, start, Len(s))>>
    ELSE <<SubSeq(s, start, i - 1)>> \o SplitFrom(s, BrEnd(s, i))

SplitFrom(s, start) ==
    SplitAt(s, start, First({i \in start..Len(s) : BrEnd(s, i) # 0}))

Split(reference) == SplitFrom(reference, 1)

\* "(.*)" from b: up to the end of the line.
RestOfLine(s, b, n) == SubSeq(s, b, IF n = 0 THEN Len(s) ELSE n - 1)

LineFrom(s, b) == RestOfLine(s, b, Find(s, <<"\n">>, b))

\* re.search(r"(?:\d\))?\s*(.*)", s).group(1): the text after an optional
\* "<digit>)" and white space, up to the end of its line.
AfterMarker(s) ==
    LineFrom(s, SkipSpaces(s, IF Len(s) >= 2 /\ IsDigit(s[1]) /\ s[2] = ")"
                              THEN 3 ELSE 1))

\* The first index >= from of a character of cs, 0 when there is none.
FindAny(s, cs, from) == First({i \in from..Len(s) : s[i] \in cs})

\* re.sub(r"\<\/?[^\<\>]*\>", "", s): a "<" up to the next ">" is removed when
\* no "<" comes between them.
\* TagEnd: the index of the ">" closing the match at i, 0 when none matches
\* there.  StripTagAt: i is the start of the first match at or after from.
TagClose(s, i, j) == IF s[i] = "<" /\ j # 0 /\ s[j] = ">" THEN j ELSE 0

TagEnd(s, i) == TagClose(s, i, FindAny(s, {"<", ">"}, i + 1))

RECURSIVE StripTagsFrom(_, _)
StripTagAt(s, from, i) ==
    IF i = 0 THEN SubSeq(s, from, Len(s))
    ELSE SubSeq(s, from, i - 1) \o StripTagsFrom(s, TagEnd(s, i) + 1)

StripTagsFrom(s, from) ==
    StripTagAt(s, from, First({i \in from..Len(s) : TagEnd(s, i) # 0}))

StripTags(s) == StripTagsFrom(s, 1)

Quote == "\""

Href == <<"h", "r", "e", "f", "=", "\"">>

DoiOrg == <<"d", "o", "i", ".", "o", "r", "g">>

\* r"href\=\"([^\"]+)\"" matches at i: a non-empty value and its closing quote.
HrefMatchesAt(s, i) ==
    /\ StartsAt(s, Href, i)
    /\ Find(s, <<Quote>>, i + Len(Href)) > i + Len(Href)

\* The group of the match at i.
HrefValue(s, i) == SubSeq(s, i + Len(Href), Find(s, <<Quote>>, i + Len(Href)) - 1)

\* re.search(r"href\=\"([^\"]+)\"", s): the group of the leftmost match, None
\* when there is no match.
FirstHrefAt(s, i) == IF i = 0 THEN None ELSE HrefValue(s, i)

FirstHref(s) == FirstHrefAt(s, First({i \in 1..Len(s) : HrefMatchesAt(s, i)}))

\* The url of get_non_doi_url for the value of the first href.
NonDoi(url) == IF url # None /\ ~Contains(url, DoiOrg) THEN url ELSE None

\* get_non_doi_url without the test for "doi.org".
get_any_url(raw_str) == FirstHref(raw_str)

\* get_non_doi_url
get_non_doi_url(raw_str) == NonDoi(FirstHref(raw_str))

\* r"\".*doi\.org\/([^\"]+)\"" with its opening quote at i and "doi.org/" at p:
\* ".*" stays on the line, the group is not empty and a quote closes it.
DoiMatch(s, i, p) ==
    /\ s[i] = Quote
    /\ p > i
    /\ StartsAt(s, DoiOrg \o <<"/">>, p)
    /\ \A x \in (i + 1)..(p - 1) : s[x] # "\n"
    /\ Find(s, <<Quote>>, p + Len(DoiOrg) + 1) > p + Len(DoiOrg) + 1

\* The group when "doi.org/" is at p.
DoiGroup(s, p) ==
    SubSeq(s, p + Len(DoiOrg) + 1, Find(s, <<Quote>>, p + Len(DoiOrg) + 1) - 1)

\* ".*" is greedy: of the places of "doi.org/" that match with the opening
\* quote at i, the last.
DoiFrom(s, i) ==
    DoiGroup(s, CHOOSE p \in 1..Len(s) :
                    DoiMatch(s, i, p) /\ \A q \in (p + 1)..Len(s) : ~DoiMatch(s, i, q))

DoiStarts(s) ==
    {i \in 1..Len(s) : s[i] = Quote /\ \E p \in (i + 1)..Len(s) : DoiMatch(s, i, p)}

\* The search is leftmost: the first opening quote that matches.
DoiOf(s, starts) ==
    IF starts = {} THEN None
    ELSE DoiFrom(s, CHOOSE i \in starts : \A j \in starts : i <= j)

\* get_doi
get_doi(raw_str) == DoiOf(raw_str, DoiStarts(raw_str))

\* Citation.__init__ before the call of get_bibtex.
Citation(ref_str) ==
    [raw_str |-> ref_str,
     ref_str |-> StripTags(AfterMarker(ref_str)),
     url |-> get_non_doi_url(ref_str),
     doi |-> get_doi(ref_str),
     bibtex |-> None]

EntryPath == <<"/","e","n","t","r","y">>

reference_identifier == <<"R","E","F","E","R","E","N","C","E","S">>

basename == <<"r","e","f","e","r","e","n","c","e">>

\* name after the loop has assigned count: f"{basename}{count}"; before the
\* first assignment (count = 0 here) it is basename.
NameOf(count) == IF count = 0 THEN basename ELSE basename \o ToStr(count)

\* f"{path}/{reference_identifier}[{name}]"
BasePath(path, name) ==
    path \o <<"/">> \o reference_identifier \o <<"[">> \o name \o <<"]">>

TextKey(path, name) == BasePath(path, name) \o <<"/","t","e","x","t">>

\* An if in place of the while: after "reference" the name "reference1" is
\* taken without a second look at the template.
NameLoopStuck(tmpl, path, count) ==
    IF TextKey(path, NameOf(0)) \in DOMAIN tmpl THEN 1 ELSE 0

\* The while loop of write_entries: count = locals().get("count", 0) + 1 until
\* the name's text key is not in the template.  The result is the last count
\* (0: the loop body never ran).
RECURSIVE NameLoop(_, _, _)
NameLoop(tmpl, path, count) ==
    IF TextKey(path, NameOf(count)) \in DOMAIN tmpl
    THEN NameLoop(tmpl, path, count + 1)
    ELSE count

\* if value: template[f"{base_path}/<field>"] = value
PutIf(tmpl, base_path, field, value) ==
    IF Truthy(value) THEN Put(tmpl, base_path \o field, value) ELSE tmpl

\* write_entries after the loop: the entries under base_path.
WriteUnder(self, tmpl, base_path) ==
    Put(PutIf(PutIf(PutIf(tmpl, base_path, <<"/","u","r","l">>, self.url),
                    base_path, <<"/","d","o","i">>, self.doi),
              base_path, <<"/","b","i","b","t","e","x">>, self.bibtex),
        base_path \o <<"/","t","e","x","t">>, self.ref_str)

\* The base_path write_entries chooses.
ChosenBasePath(tmpl, path) == BasePath(path, NameOf(NameLoop(tmpl, path, 0)))

\* write_entries(self, template, path): the template after the call.
write_entries(self, tmpl, path) == WriteUnder(self, tmpl, ChosenBasePath(tmpl, path))

SeqsUpTo(S, n) == UNION {[1..k -> S] : k \in 0..n}

RECURSIVE Flatten(_)
Flatten(parts) == IF parts = <<>> THEN <<>> ELSE parts[1] \o Flatten(Tail(parts))

(***************************************************************************)
(* The state of the three components.  They share none: each specification *)
(* below runs one component and leaves the others idle.                    *)
(***************************************************************************)
VARIABLES
    fpc,                   \* "desc", "filled", "renormalized" | "matches", "sorted"
    material_description,  \* entry["material_description"]
    metadata,              \* the dict fill wrote
    elems,                 \* the local elems of fill
    renormalized,          \* elems of fill run on the formula it wrote
    elements,              \* the argument of hill_sorted_elements
    sorted_elems           \* its result

VARIABLES
    apc,        \* create_nexus_database: "running", "done" or "failed"
    catalog,    \* the rows of the catalog, in order
    row,        \* the row progress_apply hands to create_nexus next
    results,    \* what create_nexus did for each row handed to it so far
    outputs     \* the converter calls made so far

VARIABLES
    cpc,          \* parse_citations: "parsing", "returned" or "raised"
    reference,    \* the argument reference
    cites,        \* the fragments re.split returned
    enrich,       \* the argument get_bibtex
    clean_cites,  \* the list clean_cites
    requests      \* the requests.get calls made so far, with their outcome

VARIABLES
    template,   \* the dict write_entries writes to
    calls       \* the write_entries calls so far: the citation and its base_path

formulaVars == <<fpc, material_description, metadata, elems, renormalized,
                 elements, sorted_elems>>

axisVars == <<apc, catalog, row, results, outputs>>

citeVars == <<cpc, reference, cites, enrich, clean_cites, requests>>

writeVars == <<template, calls>>

vars == <<formulaVars, axisVars, citeVars, writeVars>>

IdleFormula ==
    /\ fpc = "idle"
    /\ material_description = <<>>
    /\ metadata = EmptyDict
    /\ elems = <<>>
    /\ renormalized = <<>>
    /\ elements = <<>>
    /\ sorted_elems = <<>>

IdleAxis ==
    /\ apc = "idle"
    /\ catalog = <<>>
    /\ row = 1
    /\ results = <<>>
    /\ outputs = <<>>

IdleCite ==
    /\ cpc = "idle"
    /\ reference = <<>>
    /\ cites = <<>>
    /\ enrich = FALSE
    /\ clean_cites = <<>>
    /\ requests = <<>>

IdleWrite ==
    /\ template = EmptyDict
    /\ calls = <<>>

(***************************************************************************)
(* The normaliser: fill on a description and again on the formula it       *)
(* wrote, and hill_sorted_elements on a list of matches.                   *)
(***************************************************************************)

\* Bounds of the inputs.
MaxTokens == 2

MaxMatches == 3

GalliumArsenide ==
    <<"G","a","l","l","i","u","m"," ","a","r","s","e","n","i","d","e"," ","(","G","a",
      "A","s",")">>

Polystyrene ==
    <<"(","C","8","H","8",")","n"," ","p","o","l","y","s","t","y","r","e","n","e">>

\* Descriptions of the database and of the design's scenarios.
SampleDescriptions == {
    GalliumArsenide,
    Polystyrene,
    <<"M","g","(","O","H",")","2">>,
    <<"A","l","<","s","u","b",">","2","<","/","s","u","b",">","O","<","s","u","b",">",
      "3","<","/","s","u","b",">"," ","(","S","a","p","p","h","i","r","e",")">>,
    <<"G","a","A","s"," ","(","G","a","l","l","i","u","m"," ","a","r","s","e","n","i",
      "d","e",")">>,
    <<"(","C","2","H","4",")","n">>,
    <<"S","i"," ","(","u","n","b","a","l","a","n","c","e","d">> }

TokenSymbols == { <<"C">>, <<"H">>, <<"O">>, <<"S","i">>, <<"C","o">> }

TokenDigits == { <<>>, <<"0">>, <<"2">>, <<"1","2">> }

\* Formula-shaped descriptions: up to MaxTokens symbols, each with a digit run.
FormulaTokens == {sym \o ds : sym \in TokenSymbols, ds \in TokenDigits}

Descriptions ==
    SampleDescriptions
    \cup {Flatten(toks) : toks \in SeqsUpTo(FormulaTokens, MaxTokens)}

MatchSymbols == { <<"C">>, <<"H">>, <<"O">>, <<"A","l">> }

MatchDigits == { <<>>, <<"0">>, <<"3">> }

\* The (symbol, digits) lists handed to hill_sorted_elements.
MatchLists == SeqsUpTo(MatchSymbols \X MatchDigits, MaxMatches)

InitFormula ==
    /\ metadata = EmptyDict
    /\ elems = <<>>
    /\ renormalized = <<>>
    /\ sorted_elems = <<>>
    /\ \/ /\ fpc = "desc"
          /\ material_description \in Descriptions
          /\ elements = <<>>
       \/ /\ fpc = "matches"
          /\ material_description = <<>>
          /\ elements \in MatchLists
    /\ IdleAxis /\ IdleCite /\ IdleWrite

\* fill(metadata, entry) with an empty metadata dict.
Fill ==
    /\ fpc = "desc"
    /\ metadata' = fill(EmptyDict, material_description)
    /\ elems' = FillElems(material_description)
    /\ fpc' = "filled"
    /\ UNCHANGED <<material_description, renormalized, elements, sorted_elems>>
    /\ UNCHANGED <<axisVars, citeVars, writeVars>>

\* fill again, on the chemical_formula the first call wrote.
Renormalize ==
    /\ fpc = "filled"
    /\ renormalized' = FillElems(metadata[KeyFormula])
    /\ fpc' = "renormalized"
    /\ UNCHANGED <<material_description, metadata, elems, elements, sorted_elems>>
    /\ UNCHANGED <<axisVars, citeVars, writeVars>>

\* hill_sorted_elements(elements)
HillSort ==
    /\ fpc = "matches"
    /\ sorted_elems' = hill_sorted_elements(elements)
    /\ fpc' = "sorted"
    /\ UNCHANGED <<material_description, metadata, elems, renormalized, elements>>
    /\ UNCHANGED <<axisVars, citeVars, writeVars>>

NextFormula == Fill \/ Renormalize \/ HillSort

SpecFormula == InitFormula /\ [][NextFormula]_vars

(***************************************************************************)
(* The axis linker: create_nexus_database applies create_nexus to the rows *)
(* of the catalog, in order.                                               *)
(***************************************************************************)

\* Bound of the catalog's length.
MaxCatalog == 3

Paths == {
    <<"a","-","o",".","y","m","l">>,
    <<"a","-","e",".","y","m","l">>,
    <<"a","-","a","l","p","h","a",".","y","m","l">>,
    <<"a","-","b","e","t","a",".","y","m","l">>,
    <<"a","-","g","a","m","m","a",".","y","m","l">>,
    <<"a",".","y","m","l">>,
    <<"a","-","o",".","-","a","l","p","h","a",".","y","m","l">>,
    <<"a","-","e",".","-","a","l","p","h","a",".","y","m","l">>,
    <<"a","-","o","x",".","y","m","l">> }

\* The rows of one catalog are pages of one book: they share its description.
EntryDescriptions == { <<"S","i","O","2">>, Polystyrene }

Catalogs ==
    {[i \in DOMAIN ps |-> [path |-> ps[i], material_description |-> d]] :
        ps \in SeqsUpTo(Paths, MaxCatalog) \ {<<>>}, d \in EntryDescriptions}

InitAxis ==
    /\ apc = "running"
    /\ catalog \in Catalogs
    /\ row = 1
    /\ results = <<>>
    /\ outputs = <<>>
    /\ IdleFormula /\ IdleCite /\ IdleWrite

\* progress_apply calls create_nexus on the next row; an AssertionError leaves
\* the apply, and with it create_nexus_database.
ApplyRow ==
    /\ apc = "running"
    /\ row <= Len(catalog)
    /\ \E r \in {create_nexus(catalog[row], catalog)} :
           /\ results' = Append(results, r)
           /\ outputs' = IF r.outcome = "written"
                         THEN Append(outputs, write_nexus(catalog[row].path, r.metadata))
                         ELSE outputs
           /\ IF r.outcome = "raised"
              THEN apc' = "failed" /\ row' = row
              ELSE apc' = apc /\ row' = row + 1
    /\ UNCHANGED catalog
    /\ UNCHANGED <<formulaVars, citeVars, writeVars>>

\* progress_apply returns after the last row.
ApplyReturn ==
    /\ apc = "running"
    /\ row > Len(catalog)
    /\ apc' = "done"
    /\ UNCHANGED <<catalog, row, results, outputs>>
    /\ UNCHANGED <<formulaVars, citeVars, writeVars>>

NextAxis == ApplyRow \/ ApplyReturn

SpecAxis == InitAxis /\ [][NextAxis]_vars

(***************************************************************************)
(* Citation.parse_citations: one Citation is built per fragment, in order; *)
(* get_bibtex asks the DOI resolver once.                                  *)
(***************************************************************************)

\* Bound of the number of pieces a reference block is put together from.
MaxPieces == 3

Marker ==
    <<"1",")"," ","A","."," ","T",","," ">>

DoiLink ==
    <<"<","a"," ","h","r","e","f","=","\"","h","t","t","p","s",":","/","/","d","o","i",
      ".","o","r","g","/","1","0",".","1","/","x","\"",">","J","<","/","a",">">>

UrlLink ==
    <<"<","a"," ","h","r","e","f","=","\"","h","t","t","p","s",":","/","/","r",".","i",
      "n","f","o","/","f",".","p","d","f","\"",">","R","<","/","a",">">>

\* A link to the resolver that names no DOI.
ResolverLink ==
    <<"<","a"," ","h","r","e","f","=","\"","h","t","t","p","s",":","/","/","d","o","i",
      ".","o","r","g","/","\"",">","D","<","/","a",">">>

\* A quoted DOI address in the text, not a link.
QuotedDoi ==
    <<" ","\"","d","o","i",".","o","r","g","/","1","0",".","2","/","y","\"">>

Pieces == {
    Marker, DoiLink, UrlLink, ResolverLink, QuotedDoi,
    <<"\n">>,
    <<"<","b","r",">">>,
    <<"<","b","r","/",">">>,
    <<"<","b","r"," ","/",">">>,
    <<"<","B","R",">">> }

References == {Flatten(ps) : ps \in SeqsUpTo(Pieces, MaxPieces)}

\* The status code get_bibtex takes for success.
StatusOk == 200

\* The status codes of a response, and the exceptions requests.get raises
\* (requests.Timeout after timeout=30, requests.ConnectionError).
Statuses == {StatusOk, 404}

Exceptions == {"Timeout", "ConnectionError"}

\* req.text of a response.
Body ==
    <<"@","a","r","t","i","c","l","e","{","x","}">>

\* parse_citations after the split.
InitCite ==
    /\ cpc = "parsing"
    /\ reference \in References
    /\ cites = Split(reference)
    /\ enrich \in BOOLEAN
    /\ clean_cites = <<>>
    /\ requests = <<>>
    /\ IdleFormula /\ IdleAxis /\ IdleWrite

\* Citation(cite, get_bibtex) where get_bibtex makes no request: it is not
\* asked for, or the citation has no DOI.
ConstructCitation ==
    /\ cpc = "parsing"
    /\ Len(clean_cites) < Len(cites)
    /\ \E self \in {Citation(cites[Len(clean_cites) + 1])} :
           /\ ~(enrich /\ Truthy(self.doi))
           /\ clean_cites' = Append(clean_cites, self)
    /\ UNCHANGED <<cpc, reference, cites, enrich, requests>>
    /\ UNCHANGED <<formulaVars, axisVars, writeVars>>

\* Citation(cite, get_bibtex) where requests.get returns a response.
ConstructWithResponse ==
    /\ cpc = "parsing"
    /\ Len(clean_cites) < Len(cites)
    /\ enrich
    /\ \E self \in {Citation(cites[Len(clean_cites) + 1])} :
           /\ Truthy(self.doi)
           /\ \E status_code \in Statuses :
                /\ requests' = Append(requests,
                                      [cite |-> Len(clean_cites) + 1,
                                       doi |-> self.doi,
                                       outcome |-> "response",
                                       status_code |-> status_code])
                /\ clean_cites' =
                       Append(clean_cites,
                              IF status_code = StatusOk
                              THEN [self EXCEPT !.bibtex = Body]
                              ELSE self)
    /\ UNCHANGED <<cpc, reference, cites, enrich>>
    /\ UNCHANGED <<formulaVars, axisVars, writeVars>>

\* Citation(cite, get_bibtex) where requests.get raises: nothing catches the
\* exception, so it leaves __init__ and parse_citations.
ConstructRaises ==
    /\ cpc = "parsing"
    /\ Len(clean_cites) < Len(cites)
    /\ enrich
    /\ \E self \in {Citation(cites[Len(clean_cites) + 1])} :
           /\ Truthy(self.doi)
           /\ \E exception \in Exceptions :
                requests' = Append(requests,
                                   [cite |-> Len(clean_cites) + 1,
                                    doi |-> self.doi,
                                    outcome |-> exception,
                                    status_code |-> 0])
    /\ cpc' = "raised"
    /\ UNCHANGED <<reference, cites, enrich, clean_cites>>
    /\ UNCHANGED <<formulaVars, axisVars, writeVars>>

\* return clean_cites
ReturnCitations ==
    /\ cpc = "parsing"
    /\ Len(clean_cites) = Len(cites)
    /\ cpc' = "returned"
    /\ UNCHANGED <<reference, cites, enrich, clean_cites, requests>>
    /\ UNCHANGED <<formulaVars, axisVars, writeVars>>

NextCite ==
    ConstructCitation \/ ConstructWithResponse \/ ConstructRaises \/ ReturnCitations

SpecCite == InitCite /\ [][NextCite]_vars

(***************************************************************************)
(* Citation.write_entries on one template, as the loop of __main__ calls it *)
(***************************************************************************)

\* Bound of the number of write_entries calls.
MaxCalls == 3

\* The citations handed to write_entries: parsed from these fragments, with
\* and without a fetched bibtex.
SampleFragments == {
    Marker \o DoiLink,
    Marker \o UrlLink,
    UrlLink \o DoiLink,
    Marker,
    <<>> }

SampleCitations ==
    {Citation(f) : f \in SampleFragments}
    \cup {[Citation(f) EXCEPT !.bibtex = Body] :
            f \in {g \in SampleFragments : Truthy(Citation(g).doi)}}

\* templ = {}
InitWrite ==
    /\ template = EmptyDict
    /\ calls = <<>>
    /\ IdleFormula /\ IdleAxis /\ IdleCite

\* ref.write_entries(templ, "/entry")
WriteEntries ==
    /\ Len(calls) < MaxCalls
    /\ \E self \in SampleCitations :
         /\ template' = write_entries(self, template, EntryPath)
         /\ calls' = Append(calls, [self |-> self,
                                    base_path |-> ChosenBasePath(template, EntryPath)])
    /\ UNCHANGED <<formulaVars, axisVars, citeVars>>

NextWrite == WriteEntries

SpecWrite == InitWrite /\ [][NextWrite]_vars

(***************************************************************************)
(* Properties of the axis linker (SpecAxis).                               *)
(***************************************************************************)

\* The path contains the axis token of the path convention: "-<axis>" right
\* before a dot.
HasAxis(path, axis) == Contains(path, <<"-">> \o axis \o <<".">>)

IsSecondary(path) ==
    HasAxis(path, AxisE) \/ HasAxis(path, AxisBeta) \/ HasAxis(path, AxisGamma)

\* The path with the token of base replaced by the token of secondary.
Sibling(path, base, secondary) ==
    Replace(path, <<"-">> \o base \o <<".">>, <<"-">> \o secondary \o <<".">>)

\* The sibling paths the record of a path needs.
NeededSiblings(path) ==
    IF IsSecondary(path) THEN {}
    ELSE IF HasAxis(path, AxisO) THEN {Sibling(path, AxisO, AxisE)}
    ELSE IF HasAxis(path, AxisAlpha)
    THEN {Sibling(path, AxisAlpha, AxisBeta), Sibling(path, AxisAlpha, AxisGamma)}
    ELSE {}

Occurrences(cat, path) == Cardinality({i \in DOMAIN cat : cat[i].path = path})

SiblingsConsistent(cat, path) ==
    \A p \in NeededSiblings(path) : Occurrences(cat, p) = 1

ConsistentCatalog(cat) ==
    /\ \A i, j \in DOMAIN cat : cat[i].path = cat[j].path => i = j
    /\ \A i \in DOMAIN cat : SiblingsConsistent(cat, cat[i].path)

\* The converter calls made for the record of a path.
OutputsFor(path) ==
    {k \in DOMAIN outputs : outputs[k].input_file = prefix_path(path)}

\* The axis linkage a metadata dict carries.
Linkage(md) ==
    [y |-> Get(md, KeyDispersionY, None), z |-> Get(md, KeyDispersionZ, None)]

\* C1: in a catalog with unique paths whose needed siblings each occur once,
\* every record handed to create_nexus is decided in this order: a path with
\* the token -e, -beta or -gamma is skipped and nothing is written for it;
\* else a path with -o is written once, linked to the path with -o replaced by
\* -e; else a path with -alpha is written once, linked to the paths with
\* -alpha replaced by -beta and by -gamma; else it is written once with no
\* axis linkage.
C1_ClassifyInPriorityOrder ==
    ConsistentCatalog(catalog) =>
        \A i \in DOMAIN results :
            LET path == catalog[i].path
                r == results[i]
            IN  IF IsSecondary(path)
                THEN /\ r.outcome = "skipped"
                     /\ r.metadata = EmptyDict
                     /\ OutputsFor(path) = {}
                ELSE /\ r.outcome = "written"
                     /\ Cardinality(OutputsFor(path)) = 1
                     /\ \A k \in OutputsFor(path) : outputs[k].objects = r.metadata
                     /\ Linkage(r.metadata) =
                            IF HasAxis(path, AxisO)
                            THEN [y |-> None,
                                  z |-> prefix_path(Sibling(path, AxisO, AxisE))]
                            ELSE IF HasAxis(path, AxisAlpha)
                            THEN [y |-> prefix_path(Sibling(path, AxisAlpha, AxisBeta)),
                                  z |-> prefix_path(Sibling(path, AxisAlpha, AxisGamma))]
                            ELSE [y |-> None, z |-> None]

\* A whole biaxial group went through: the -alpha record is written with both
\* links and its two siblings are skipped.
C1_BiaxialGroupLinked ==
    /\ apc = "done"
    /\ ConsistentCatalog(catalog)
    /\ \E i \in DOMAIN results :
          /\ HasAxis(catalog[i].path, AxisAlpha)
          /\ results[i].outcome = "written"
          /\ KeyDispersionY \in DOMAIN results[i].metadata
          /\ KeyDispersionZ \in DOMAIN results[i].metadata
    /\ \E i, j \in DOMAIN results :
          /\ i # j
          /\ results[i].outcome = "skipped"
          /\ results[j].outcome = "skipped"

\* C2: create_nexus raises for a record exactly when the record is an -o or an
\* -alpha record and one of its sibling paths does not occur exactly once in
\* the catalog; the record then has no metadata and no output, and nothing
\* after the raise is done for it.
C2_SiblingMismatchIsFatal ==
    \A i \in DOMAIN results :
        /\ (results[i].outcome = "raised")
               <=> ~SiblingsConsistent(catalog, catalog[i].path)
        /\ (results[i].outcome = "raised") =>
               /\ results[i].metadata = EmptyDict
               /\ OutputsFor(catalog[i].path) = {}
               /\ i = Len(results)
               /\ apc = "failed"

\* An -alpha record whose -beta sibling is there and whose -gamma sibling is
\* missing was refused.
C2_MissingGammaRefused ==
    \E i \in DOMAIN results :
        /\ results[i].outcome = "raised"
        /\ HasAxis(catalog[i].path, AxisAlpha)
        /\ Occurrences(catalog, Sibling(catalog[i].path, AxisAlpha, AxisBeta)) = 1
        /\ Occurrences(catalog, Sibling(catalog[i].path, AxisAlpha, AxisGamma)) = 0

\* C3: once create_nexus_database is over, every record that is no secondary
\* member and whose siblings are consistent has been written, and every
\* record whose siblings are not consistent has had its failure signalled.
C3_BatchSurvivesViolation ==
    apc \in {"done", "failed"} =>
        \A i \in DOMAIN catalog :
            IF SiblingsConsistent(catalog, catalog[i].path)
            THEN IsSecondary(catalog[i].path) \/ OutputsFor(catalog[i].path) # {}
            ELSE i \in DOMAIN results /\ results[i].outcome = "raised"

(***************************************************************************)
(* Properties of the citation parser (SpecCite).                           *)
(***************************************************************************)

\* The requests.get calls made for the k-th citation.
RequestsFor(k) == {n \in DOMAIN requests : requests[n].cite = k}

\* C4: with enrichment requested, no lookup makes parse_citations raise and
\* the parse returns every citation; a citation's bibtex is the response body
\* after a success response and absent otherwise; a lookup is made at most
\* once per citation, and only when enrichment is requested and the citation
\* has a DOI.
C4_EnrichmentDegradesGracefully ==
    /\ cpc # "raised"
    /\ cpc = "returned" => Len(clean_cites) = Len(cites)
    /\ \A n \in DOMAIN requests : requests[n].outcome = "response"
    /\ \A k \in DOMAIN clean_cites :
          /\ Cardinality(RequestsFor(k)) <= 1
          /\ RequestsFor(k) # {} => (enrich /\ Truthy(clean_cites[k].doi))
          /\ clean_cites[k].bibtex =
                 IF \E n \in RequestsFor(k) : requests[n].status_code = StatusOk
                 THEN Body
                 ELSE None

LowerCase(c) ==
    IF c \in Range(Uppers) THEN Lowers[CHOOSE i \in DOMAIN Uppers : Uppers[i] = c] ELSE c

Lowered(s) == [i \in DOMAIN s |-> LowerCase(s[i])]

\* The fragments between the line-break markers of s, where low is s in lower
\* case: a marker is "<br", white space, an optional "/", white space, ">",
\* in any letter case.
RECURSIVE FragmentsFrom(_, _, _)
FragmentsAt(s, low, start, i) ==
    IF i = 0 THEN <<SubSeq(s, start, Len(s))>>
    ELSE <<SubSeq(s, start, i - 1)>> \o FragmentsFrom(s, low, BrEnd(low, i))

FragmentsFrom(s, low, start) ==
    FragmentsAt(s, low, start, First({i \in start..Len(s) : BrEnd(low, i) # 0}))

Fragments(s) == FragmentsFrom(s, Lowered(s), 1)

\* C8: parse_citations returns one citation per fragment between the
\* line-break markers of the block (letter case and spacing of a marker
\* ignored), in the order of the fragments: N markers give N + 1 citations.
C8_SplitsAtEveryMarker ==
    cpc = "returned" =>
        /\ Len(clean_cites) = Len(Fragments(reference))
        /\ \A k \in DOMAIN clean_cites :
               clean_cites[k].raw_str = Fragments(reference)[k]

\* re.findall(r"href\=\"([^\"]+)\"", s): the targets of the links of s.
RECURSIVE LinksFrom(_, _)
LinksAt(s, i) ==
    IF i = 0 THEN <<>>
    ELSE <<HrefValue(s, i)>> \o LinksFrom(s, i + Len(Href) + Len(HrefValue(s, i)) + 1)

LinksFrom(s, from) == LinksAt(s, First({i \in from..Len(s) : HrefMatchesAt(s, i)}))

Links(s) == LinksFrom(s, 1)

IsDoiLink(target) == Contains(target, DoiOrg)

DoiPrefix == DoiOrg \o <<"/">>

\* The target names an identifier after "doi.org/", with no line break.
NamesDoi(target) ==
    /\ "\n" \notin Range(target)
    /\ \E p \in 1..Len(target) :
          /\ StartsAt(target, DoiPrefix, p)
          /\ p + Len(DoiPrefix) <= Len(target)

\* s holds a double quote followed on its line by "doi.org/", at least one
\* character that is no double quote, and later a double quote.
HasQuotedDoi(s) ==
    \E i \in 1..Len(s) :
        /\ s[i] = Quote
        /\ \E p \in (i + 1)..Len(s) :
              /\ StartsAt(s, DoiPrefix, p)
              /\ \A x \in (i + 1)..(p - 1) : s[x] # "\n"
              /\ p + Len(DoiPrefix) <= Len(s)
              /\ s[p + Len(DoiPrefix)] # Quote
              /\ \E q \in (p + Len(DoiPrefix) + 1)..Len(s) : s[q] = Quote

\* C9, as the design states it: url is the target of the first link when
\* that target has no "doi.org" and absent otherwise; a fragment whose links
\* are all DOI links has doi set and url absent; a fragment has url and doi
\* only if it holds a link that is no DOI link and a DOI link.
C9_DoiLinkNeverUrl ==
    \A k \in DOMAIN clean_cites :
        LET c == clean_cites[k]
            links == Links(clean_cites[k].raw_str)
        IN  /\ c.url = IF links # <<>> /\ ~IsDoiLink(links[1]) THEN links[1] ELSE None
            /\ (links # <<>> /\ \A n \in DOMAIN links : IsDoiLink(links[n]))
                   => (c.doi # None /\ c.url = None)
            /\ (c.url # None /\ c.doi # None)
                   => /\ \E n \in DOMAIN links : ~IsDoiLink(links[n])
                      /\ \E n \in DOMAIN links : IsDoiLink(links[n])

\* C9, as the code has it: url is the target of the first link when that
\* target has no "doi.org" and absent otherwise, so a fragment whose links are
\* all DOI links has no url; doi is set exactly when the fragment holds quoted
\* text with "doi.org/" and an identifier, link or not, and is then that
\* identifier up to the closing quote; a link naming an identifier after
\* "doi.org/" sets doi; url and doi are both set only if the first link is no
\* DOI link and such quoted text is there.
C9_UrlAndDoiExtraction ==
    \A k \in DOMAIN clean_cites :
        LET c == clean_cites[k]
            links == Links(clean_cites[k].raw_str)
        IN  /\ c.url = IF links # <<>> /\ ~IsDoiLink(links[1]) THEN links[1] ELSE None
            /\ (c.doi # None) <=> HasQuotedDoi(c.raw_str)
            /\ (c.doi # None) =>
                   /\ c.doi # <<>>
                   /\ Quote \notin Range(c.doi)
                   /\ Contains(c.raw_str, DoiPrefix \o c.doi \o <<Quote>>)
            /\ (links # <<>> /\ \A n \in DOMAIN links : IsDoiLink(links[n]))
                   => c.url = None
            /\ (\E n \in DOMAIN links : NamesDoi(links[n])) => c.doi # None
            /\ (c.url # None /\ c.doi # None)
                   => (~IsDoiLink(links[1]) /\ HasQuotedDoi(c.raw_str))

\* A citation with one link, which is no DOI link, has a url and a doi: the
\* doi comes from quoted text.
C9_UrlAndQuotedDoi ==
    \E k \in DOMAIN clean_cites :
        /\ Len(Links(clean_cites[k].raw_str)) = 1
        /\ clean_cites[k].url # None
        /\ clean_cites[k].doi # None

(***************************************************************************)
(* Properties of the normaliser (SpecFormula).                             *)
(***************************************************************************)

\* The sum of the counts of sym in the matches, an empty digit run counting 1.
RECURSIVE Total(_, _)
Total(matches, sym) ==
    IF matches = <<>> THEN 0
    ELSE (IF matches[1][1] # sym THEN 0
          ELSE IF matches[1][2] = <<>> THEN 1
          ELSE ToInt(matches[1][2]))
         + Total(Tail(matches), sym)

\* The symbols of es from index from on are strictly ascending.
Ascending(es, from) ==
    \A k \in from..(Len(es) - 1) : StrLess(es[k][1], es[k + 1][1])

\* C5: hill_sorted_elements returns every symbol of its input once, with the
\* sum of its counts; with C in the input, C is first, H second when it is in
\* the input, and the rest strictly ascending; without C all symbols are
\* strictly ascending.
C5_HillSortedElements ==
    fpc = "sorted" =>
        LET syms == {elements[i][1] : i \in DOMAIN elements}
        IN  /\ Len(sorted_elems) = Cardinality(syms)
            /\ {sorted_elems[k][1] : k \in DOMAIN sorted_elems} = syms
            /\ \A k \in DOMAIN sorted_elems :
                   sorted_elems[k][2] = Total(elements, sorted_elems[k][1])
            /\ IF SymbolC \in syms
               THEN /\ sorted_elems[1][1] = SymbolC
                    /\ SymbolH \in syms => sorted_elems[2][1] = SymbolH
                    /\ Ascending(sorted_elems, IF SymbolH \in syms THEN 3 ELSE 2)
               ELSE Ascending(sorted_elems, 1)

\* C6: for a description with at least one element, fill run again on the
\* canonical formula it wrote gives the same (symbol, count) sequence, and
\* every count is at least 1.
C6_RenormalizeIdempotent ==
    (fpc = "renormalized" /\ elems # <<>>) =>
        /\ renormalized = elems
        /\ \A k \in DOMAIN elems : elems[k][2] >= 1

\* C7: for "Gallium arsenide (GaAs)" the colloquial names are ["GaAs"], there
\* are no elements and no atom types, and the formula is "Galliumarsenide".
C7_WordsGiveNoElements ==
    (fpc = "filled" /\ material_description = GalliumArsenide) =>
        /\ parse_mat_desc(material_description).names = << <<"G","a","A","s">> >>
        /\ elems = <<>>
        /\ KeyAtomTypes \notin DOMAIN metadata
        /\ metadata[KeyFormula] =
               <<"G","a","l","l","i","u","m","a","r","s","e","n","i","d","e">>

(***************************************************************************)
(* Properties of write_entries (SpecWrite).                                *)
(***************************************************************************)

GroupOpen ==
    <<"/","e","n","t","r","y","/","R","E","F","E","R","E","N","C","E","S","[",
      "r","e","f","e","r","e","n","c","e">>

\* The group of call k (from 0): "reference", then "reference1", ...
ExpectedGroup(k) == GroupOpen \o (IF k = 0 THEN <<>> ELSE ToStr(k)) \o <<"]">>

TextSuffix == <<"/","t","e","x","t">>

IsTextKey(key) ==
    /\ Len(key) >= Len(TextSuffix)
    /\ SubSeq(key, Len(key) - Len(TextSuffix) + 1, Len(key)) = TextSuffix

\* The template holds key with this value.
Holds(key, value) == key \in DOMAIN template /\ template[key] = value

\* The template holds key with this value when the value is truthy, and lacks
\* the key otherwise.
HoldsIf(key, value) ==
    IF Truthy(value) THEN Holds(key, value) ELSE key \notin DOMAIN template

\* C10: the k-th write_entries call (from 0) writes under "reference" for
\* k = 0 and "reference<k>" otherwise; the template has as many text keys as
\* calls were made; and what every call wrote is still there, unchanged.
C10_NoReferenceOverwritten ==
    /\ \A k \in DOMAIN calls : calls[k].base_path = ExpectedGroup(k - 1)
    /\ Cardinality({key \in DOMAIN template : IsTextKey(key)}) = Len(calls)
    /\ \A k \in DOMAIN calls :
          /\ Holds(ExpectedGroup(k - 1) \o TextSuffix, calls[k].self.ref_str)
          /\ HoldsIf(ExpectedGroup(k - 1) \o <<"/","u","r","l">>, calls[k].self.url)
          /\ HoldsIf(ExpectedGroup(k - 1) \o <<"/","d","o","i">>, calls[k].self.doi)
          /\ HoldsIf(ExpectedGroup(k - 1) \o <<"/","b","i","b","t","e","x">>,
                     calls[k].self.bibtex)

\* Three calls were made: the third wrote under "reference2".
C10_ThirdCallRenamed ==
    /\ Len(calls) >= 3
    /\ calls[3].base_path =
           <<"/","e","n","t","r","y","/","R","E","F","E","R","E","N","C","E","S","[",
             "r","e","f","e","r","e","n","c","e","2","]">>
    /\ Cardinality({key \in DOMAIN template : IsTextKey(key)}) = Len(calls)

=============================================================================
